---- MODULE Spec2Model ----
(***************************************************************************)
(* TRG (Terminal Rhythm Game): the note-lifecycle and judgement state      *)
(* machine of game_engine.py (Note, Track, JudgementSystem, GameState).    *)
(*                                                                         *)
(* Note objects live in a heap `note` (a sequence indexed by the order of  *)
(* creation in load_chart); `notes` is GameState.notes, the list of the    *)
(* active notes, as a sequence of heap indices, and notes_by_track is the  *)
(* per-track cache of references.  A note removed from `notes` keeps its   *)
(* last field values in the heap.                                          *)
(*                                                                         *)
(* Every handler of the program is a transformer of the state record GS    *)
(* (same name as the method), and an action (CamelCase) that applies it.   *)
(* Optional values are sequences: <<>> is None, <<v>> is the value v.      *)
(*                                                                         *)
(* The best records of save_manager.py (SaveManager.save_score) and the    *)
(* playback position of audio_manager.py (AudioManager) are modelled next  *)
(* to it, each with its own variables and its own specification.           *)
(***************************************************************************)
EXTENDS Integers, Sequences, FiniteSets, TLC

VARIABLES
    note,               \* heap of Note objects: Seq of note records
    notes,              \* GameState.notes: Seq of heap indices (active notes)
    tracks,             \* GameState.tracks: 0..num_tracks-1 -> Track record
    score,              \* GameState.score
    combo,              \* GameState.combo
    max_combo,          \* GameState.max_combo
    judgement,          \* GameState.judgement (last judgement result or "None")
    current_time_ms,    \* GameState.current_time_ms
    is_playing,         \* GameState.is_playing
    is_paused,          \* GameState.is_paused
    autoplay,           \* GameState.autoplay
    difficulty,         \* GameState.judgement_system.difficulty
    judgement_counts,   \* GameState.judgement_system.judgement_counts
    total_notes,        \* GameState.judgement_system.total_notes
    chart_end_time_ms,  \* GameState.chart_end_time_ms (<<>> is None)
    notes_by_track,     \* GameState._notes_by_track: track -> Seq of heap indices
    update_notes_cache, \* GameState._update_notes_cache
    game_over_stats,    \* final_stats that on_game_over received last (<<>>: none)
    game_over_calls,    \* how many times on_game_over has been called
    highscores,         \* SaveManager: what _load_all_scores reads from the save
                        \* file: chart id -> best record (<<>>: no record)
    save_result,        \* what the last save_score call returned (<<>>: no call)
    save_time,          \* int(time.time()) at the last save_score call
    audio,              \* AudioManager: the record of its time fields
    clock_ms,           \* time.time() * 1000, the system clock
    position            \* what get_position returned last since play() or
                        \* stop() (<<>>: no call since)

\* the SaveManager's state
save_vars == <<highscores, save_result, save_time>>

\* the AudioManager's state and the system clock
audio_vars == <<audio, clock_ms, position>>

vars == <<note, notes, tracks, score, combo, max_combo, judgement,
          current_time_ms, is_playing, is_paused, autoplay, difficulty,
          judgement_counts, total_notes, chart_end_time_ms, notes_by_track,
          update_notes_cache, game_over_stats, game_over_calls, highscores,
          save_result,
          save_time, audio, clock_ms, position>>

(***************************************************************************)
(* Program constants                                                       *)
(***************************************************************************)
num_tracks == 4

MAX_SCORE == 1000000

\* the literal 200 of Note.is_complete, update, _process_auto_miss, judge_note
MISS_WINDOW == 200

\* the floor of a scaled window
MIN_WINDOW == 10

NoteType == {"normal", "hold", "drag"}

JudgementResult == {"PERFECT", "GOOD", "BAD", "MISS"}

Difficulty == {"easy", "normal", "hard", "expert", "master"}

DEFAULT_JUDGEMENT_WINDOWS == [PERFECT |-> 80, GOOD |-> 160, BAD |-> 200]

\* weights in percent (1.0, 0.65, 0.0, 0.0)
DEFAULT_JUDGEMENT_SCORES == [PERFECT |-> 100, GOOD |-> 65, BAD |-> 0, MISS |-> 0]

\* factors in tenths (1.3, 1.0, 0.8, 0.6, 0.5)
difficulty_factors == [easy |-> 13, normal |-> 10, hard |-> 8, expert |-> 6, master |-> 5]

TrackIndex == 0 .. (num_tracks - 1)

Abs(x) == IF x < 0 THEN -x ELSE x

Min(a, b) == IF a <= b THEN a ELSE b

Max(a, b) == IF a >= b THEN a ELSE b

\* math.ceil(p / q) for p >= 0, q > 0
Ceil(p, q) == (p + q - 1) \div q

(***************************************************************************)
(* Note                                                                    *)
(***************************************************************************)
\* Note.__init__
NewNote(track_index, note_type, perfect_time, duration) ==
    [track_index     |-> track_index,
     type            |-> note_type,
     perfect_time    |-> perfect_time,
     duration        |-> duration,
     hit             |-> FALSE,
     held_time       |-> 0,
     judgement       |-> "None",
     start_hold_time |-> <<>>,
     current_track   |-> track_index]

\* Note.update without the cap of held_time at the duration (mutant)
Note_update_uncapped(n, current_time, activated) ==
    IF n.type = "hold" /\ n.hit /\ activated
    THEN [n EXCEPT !.start_hold_time =
                       IF n.start_hold_time = <<>> THEN <<current_time>> ELSE @,
                   !.held_time = current_time - n.perfect_time]
    ELSE n

\* Note.update(current_time, activated)
Note_update(n, current_time, activated) ==
    IF n.type = "hold" /\ n.hit /\ activated
    THEN [n EXCEPT !.start_hold_time =
                       IF n.start_hold_time = <<>> THEN <<current_time>> ELSE @,
                   !.held_time = Min(current_time - n.perfect_time, n.duration)]
    ELSE n

\* Note.is_complete(current_time)
Note_is_complete(n, current_time) ==
    IF n.type = "normal" \/ n.type = "drag"
    THEN n.hit \/ current_time > n.perfect_time + MISS_WINDOW
    ELSE (n.hit /\ n.held_time >= n.duration)
         \/ current_time > n.perfect_time + MISS_WINDOW

(***************************************************************************)
(* Track                                                                   *)
(***************************************************************************)
\* Track.__init__
NewTrack == [activated |-> FALSE, last_press_time |-> 0, press_count |-> 0]

\* Track.press without the test of activated (mutant)
Track_press_again(t, current_time) ==
    [activated |-> TRUE, last_press_time |-> current_time,
     press_count |-> t.press_count + 1]

\* Track.press(current_time)
Track_press(t, current_time) ==
    IF ~t.activated
    THEN [activated |-> TRUE, last_press_time |-> current_time,
          press_count |-> t.press_count + 1]
    ELSE t

\* Track.release()
Track_release(t) ==
    IF t.activated THEN [t EXCEPT !.activated = FALSE] ELSE t

\* Track.reset(): press_count is kept
Track_reset(t) == [t EXCEPT !.activated = FALSE, !.last_press_time = 0]

(***************************************************************************)
(* JudgementSystem                                                         *)
(***************************************************************************)
\* _adjust_windows_for_difficulty with the unscaled Perfect window as the
\* smallest window (mutant)
adjust_windows_wide_minimum(d) ==
    [r \in {"PERFECT", "GOOD", "BAD"} |->
        Max(DEFAULT_JUDGEMENT_WINDOWS["PERFECT"],
            (DEFAULT_JUDGEMENT_WINDOWS[r] * difficulty_factors[d]) \div 10)]

\* JudgementSystem._adjust_windows_for_difficulty: int(window * factor), floored
adjust_windows_for_difficulty(d) ==
    [r \in {"PERFECT", "GOOD", "BAD"} |->
        Max(MIN_WINDOW, (DEFAULT_JUDGEMENT_WINDOWS[r] * difficulty_factors[d]) \div 10)]

\* get_judgement with the Perfect window taken as exclusive (mutant)
get_judgement_strict(d, time_diff) ==
    LET w == adjust_windows_for_difficulty(d) IN
    IF time_diff < w["PERFECT"] THEN "PERFECT"
    ELSE IF time_diff <= w["GOOD"] THEN "GOOD"
    ELSE IF time_diff <= w["BAD"] THEN "BAD"
    ELSE "MISS"

\* JudgementSystem.get_judgement(time_diff) under difficulty d
get_judgement(d, time_diff) ==
    LET w == adjust_windows_for_difficulty(d) IN
    IF time_diff <= w["PERFECT"] THEN "PERFECT"
    ELSE IF time_diff <= w["GOOD"] THEN "GOOD"
    ELSE IF time_diff <= w["BAD"] THEN "BAD"
    ELSE "MISS"

\* calculate_score without the weight of the judgement (mutant)
calculate_score_unweighted(n, j) ==
    IF n = 0 THEN 0
    ELSE Ceil(MAX_SCORE, n)

\* calculate_score with the base taken over one note too many (mutant)
calculate_score_off_by_one(n, j) ==
    IF n = 0 THEN 0
    ELSE Ceil(MAX_SCORE * DEFAULT_JUDGEMENT_SCORES[j], (n + 1) * 100)

\* JudgementSystem.calculate_score(judgement) with total_notes = n
calculate_score(n, j) ==
    IF n = 0 THEN 0
    ELSE Ceil(MAX_SCORE * DEFAULT_JUDGEMENT_SCORES[j], n * 100)

ZeroCounts == [r \in JudgementResult |-> 0]

(***************************************************************************)
(* SaveManager: the best record of each chart                              *)
(***************************************************************************)
\* current_best.get('score', 0) of highscores.get(chart_id, {})
current_best_score(store, chart_id) ==
    IF store[chart_id] # <<>> /\ "score" \in DOMAIN store[chart_id][1]
    THEN store[chart_id][1].score
    ELSE 0

\* score_data['timestamp'] = int(time.time())
with_timestamp(score_data, now) ==
    [k \in DOMAIN score_data \cup {"timestamp"} |->
        IF k = "timestamp" THEN now ELSE score_data[k]]

\* save_score that also replaces the record on an equal score (mutant)
save_score_or_equal(store, chart_id, score_data, now, write_ok) ==
    IF "score" \notin DOMAIN score_data
    THEN [highscores |-> store, result |-> FALSE]
    ELSE IF current_best_score(store, chart_id) > score_data.score
    THEN [highscores |-> store, result |-> TRUE]
    ELSE IF write_ok
    THEN [highscores |-> [store EXCEPT ![chart_id] = <<with_timestamp(score_data, now)>>],
          result |-> TRUE]
    ELSE [highscores |-> store, result |-> FALSE]

\* SaveManager.save_score(chart_id, score_data) at the clock reading now; write_ok
\* is whether _save_all_scores could open and write the save file (when it could
\* not, the file is as it was and the call returns False)
save_score(store, chart_id, score_data, now, write_ok) ==
    IF "score" \notin DOMAIN score_data
    THEN [highscores |-> store, result |-> FALSE]
    ELSE IF current_best_score(store, chart_id) >= score_data.score
    THEN [highscores |-> store, result |-> TRUE]
    ELSE IF write_ok
    THEN [highscores |-> [store EXCEPT ![chart_id] = <<with_timestamp(score_data, now)>>],
          result |-> TRUE]
    ELSE [highscores |-> store, result |-> FALSE]

(***************************************************************************)
(* AudioManager: the playback position, computed from the system clock.    *)
(* Each method is a transformer of the record a of the time fields; now is *)
(* time.time() * 1000.  get_position returns the record and the position.  *)
(***************************************************************************)
\* AudioManager.__init__
NewAudioManager ==
    [music_playing |-> FALSE, music_delay |-> 0, play_start_time |-> 0,
     pause_start_time |-> 0, total_paused_time |-> 0, last_position |-> 0]

\* AudioManager.reset_time_variables
reset_time_variables(a) ==
    [a EXCEPT !.play_start_time = 0, !.pause_start_time = 0,
              !.total_paused_time = 0, !.last_position = 0]

\* AudioManager.get_position: the manager after the call and the value returned
get_position(a, now) ==
    IF ~a.music_playing THEN [audio |-> a, position |-> a.last_position]
    ELSE LET played_time == now - a.play_start_time - a.total_paused_time
             pos == Max(0, played_time - a.music_delay)
         IN [audio |-> [a EXCEPT !.last_position = pos], position |-> pos]

\* AudioManager.play
play(a, now) ==
    IF a.music_playing THEN get_position(a, now).audio
    ELSE [a EXCEPT !.play_start_time = now, !.music_playing = TRUE,
                   !.pause_start_time = 0]

\* AudioManager.stop
stop(a) == reset_time_variables([a EXCEPT !.music_playing = FALSE])

\* AudioManager.pause
pause(a, now) ==
    IF ~a.music_playing THEN a
    ELSE LET a1 == [a EXCEPT !.pause_start_time = now, !.music_playing = FALSE]
         IN [a1 EXCEPT !.last_position = get_position(a1, now).position]

\* AudioManager.resume
resume(a, now) ==
    IF a.music_playing THEN a
    ELSE LET a1 == IF a.pause_start_time > 0
                   THEN [a EXCEPT !.total_paused_time = @ + (now - a.pause_start_time),
                                  !.pause_start_time = 0]
                   ELSE a
         IN [a1 EXCEPT !.play_start_time = now - a1.last_position - a1.total_paused_time,
                       !.music_playing = TRUE]

\* AudioManager.set_music_delay
set_music_delay(a, delay) ==
    [a EXCEPT !.music_delay = Max(-1000, Min(1000, delay))]

(***************************************************************************)
(* GameState: the state record and the helpers of the handlers             *)
(***************************************************************************)
GS ==
    [note |-> note, notes |-> notes, tracks |-> tracks, score |-> score,
     combo |-> combo, max_combo |-> max_combo, judgement |-> judgement,
     current_time_ms |-> current_time_ms, is_playing |-> is_playing,
     is_paused |-> is_paused, autoplay |-> autoplay, difficulty |-> difficulty,
     judgement_counts |-> judgement_counts, total_notes |-> total_notes,
     chart_end_time_ms |-> chart_end_time_ms, notes_by_track |-> notes_by_track,
     update_notes_cache |-> update_notes_cache, game_over_stats |-> game_over_stats,
     game_over_calls |-> game_over_calls]

\* the state after the handler: every variable of the GameState takes the field
\* of s; the handlers of the GameState do not touch the SaveManager
Becomes(s) ==
    /\ UNCHANGED save_vars
    /\ UNCHANGED audio_vars
    /\ note' = s.note
    /\ notes' = s.notes
    /\ tracks' = s.tracks
    /\ score' = s.score
    /\ combo' = s.combo
    /\ max_combo' = s.max_combo
    /\ judgement' = s.judgement
    /\ current_time_ms' = s.current_time_ms
    /\ is_playing' = s.is_playing
    /\ is_paused' = s.is_paused
    /\ autoplay' = s.autoplay
    /\ difficulty' = s.difficulty
    /\ judgement_counts' = s.judgement_counts
    /\ total_notes' = s.total_notes
    /\ chart_end_time_ms' = s.chart_end_time_ms
    /\ notes_by_track' = s.notes_by_track
    /\ update_notes_cache' = s.update_notes_cache
    /\ game_over_stats' = s.game_over_stats
    /\ game_over_calls' = s.game_over_calls

\* list.sort(key=perfect_time) of a list of note references: stable
RECURSIVE sort_by_perfect_time(_, _)
sort_by_perfect_time(h, ids) ==
    IF ids = <<>> THEN <<>>
    ELSE LET rest == sort_by_perfect_time(h, SubSeq(ids, 1, Len(ids) - 1))
             x == ids[Len(ids)]
             k == Cardinality({i \in 1 .. Len(rest) :
                                 h[rest[i]].perfect_time <= h[x].perfect_time})
         IN SubSeq(rest, 1, k) \o <<x>> \o SubSeq(rest, k + 1, Len(rest))

\* list.remove(x): the first occurrence
RECURSIVE remove(_, _)
remove(ids, x) ==
    IF ids = <<>> THEN <<>>
    ELSE IF Head(ids) = x THEN Tail(ids)
    ELSE <<Head(ids)>> \o remove(Tail(ids), x)

\* GameState.check_track_state
check_track_state(s, track_index) ==
    IF 0 <= track_index /\ track_index < num_tracks
    THEN s.tracks[track_index].activated
    ELSE FALSE

\* GameState._update_notes_cache_impl
_update_notes_cache_impl(s) ==
    IF ~s.update_notes_cache THEN s
    ELSE LET OnTrack(i) ==
                 SelectSeq(s.notes,
                           LAMBDA id : /\ s.note[id].track_index = i
                                       /\ ~s.note[id].hit)
         IN [s EXCEPT !.notes_by_track =
                          [i \in TrackIndex |-> sort_by_perfect_time(s.note, OnTrack(i))],
                      !.update_notes_cache = FALSE]

\* _judge_note that does not ask for a refresh of the track cache (mutant)
_judge_note_keeps_cache(s, id, time_diff) ==
    LET result == get_judgement(s.difficulty, time_diff)
        gain == calculate_score(s.total_notes, result)
    IN [s EXCEPT !.note[id].hit = TRUE,
                 !.note[id].judgement = result,
                 !.score = IF result # "MISS" THEN Min(s.score + gain, MAX_SCORE) ELSE @,
                 !.combo = IF result # "MISS" THEN s.combo + 1 ELSE 0,
                 !.max_combo = IF result # "MISS" THEN Max(s.max_combo, s.combo + 1) ELSE @,
                 !.judgement_counts[result] = @ + 1,
                 !.judgement = result]

\* _judge_note without the update of max_combo
_judge_note_keeps_max_combo(s, id, time_diff) ==
    LET result == get_judgement(s.difficulty, time_diff)
        gain == calculate_score(s.total_notes, result)
    IN [s EXCEPT !.note[id].hit = TRUE,
                 !.note[id].judgement = result,
                 !.score = IF result # "MISS" THEN Min(s.score + gain, MAX_SCORE) ELSE @,
                 !.combo = IF result # "MISS" THEN s.combo + 1 ELSE 0,
                 !.judgement_counts[result] = @ + 1,
                 !.judgement = result,
                 !.update_notes_cache = TRUE]

\* _judge_note without the clamp of the score to MAX_SCORE
_judge_note_unclamped(s, id, time_diff) ==
    LET result == get_judgement(s.difficulty, time_diff)
        gain == calculate_score(s.total_notes, result)
    IN [s EXCEPT !.note[id].hit = TRUE,
                 !.note[id].judgement = result,
                 !.score = IF result # "MISS" THEN s.score + gain ELSE @,
                 !.combo = IF result # "MISS" THEN s.combo + 1 ELSE 0,
                 !.max_combo = IF result # "MISS" THEN Max(s.max_combo, s.combo + 1) ELSE @,
                 !.judgement_counts[result] = @ + 1,
                 !.judgement = result,
                 !.update_notes_cache = TRUE]

\* GameState._judge_note(note, time_diff); the result is left in .judgement
_judge_note(s, id, time_diff) ==
    LET result == get_judgement(s.difficulty, time_diff)
        gain == calculate_score(s.total_notes, result)
    IN [s EXCEPT !.note[id].hit = TRUE,
                 !.note[id].judgement = result,
                 !.score = IF result # "MISS" THEN Min(s.score + gain, MAX_SCORE) ELSE @,
                 !.combo = IF result # "MISS" THEN s.combo + 1 ELSE 0,
                 !.max_combo = IF result # "MISS" THEN Max(s.max_combo, s.combo + 1) ELSE @,
                 !.judgement_counts[result] = @ + 1,
                 !.judgement = result,
                 !.update_notes_cache = TRUE]

\* _judge_perfect passing the true offset of the note (mutant)
_judge_perfect_by_offset(s, id) ==
    _judge_note(s, id, Abs(s.current_time_ms - s.note[id].perfect_time))

\* GameState._judge_perfect(note)
_judge_perfect(s, id) == _judge_note(s, id, 0)

\* _judge_miss that leaves the judgement of the note unset (mutant)
_judge_miss_without_judgement(s, id) ==
    [s EXCEPT !.note[id].hit = TRUE,
              !.combo = 0,
              !.judgement_counts["MISS"] = @ + 1,
              !.judgement = "MISS",
              !.update_notes_cache = TRUE]

\* _judge_miss without the reset of the combo (mutant)
_judge_miss_keeps_combo(s, id) ==
    [s EXCEPT !.note[id].hit = TRUE,
              !.note[id].judgement = "MISS",
              !.judgement_counts["MISS"] = @ + 1,
              !.judgement = "MISS",
              !.update_notes_cache = TRUE]

\* GameState._judge_miss(note)
_judge_miss(s, id) ==
    [s EXCEPT !.note[id].hit = TRUE,
              !.note[id].judgement = "MISS",
              !.combo = 0,
              !.judgement_counts["MISS"] = @ + 1,
              !.judgement = "MISS",
              !.update_notes_cache = TRUE]

\* GameState.stop_game
stop_game(s) == [s EXCEPT !.is_playing = FALSE, !.is_paused = FALSE]

\* self.tracks[index]: the track a Python list index names (a negative index
\* counts from the end), <<>> when the index raises IndexError
tracks_index(index) ==
    IF 0 <= index /\ index < num_tracks THEN <<index>>
    ELSE IF -num_tracks <= index /\ index < 0 THEN <<index + num_tracks>>
    ELSE <<>>

\* the loop of _process_autoplay without the test of note.hit (mutant)
RECURSIVE _process_autoplay_loop_rejudging(_, _)
_process_autoplay_loop_rejudging(s, ids) ==
    IF ids = <<>> THEN [st |-> s, raised |-> FALSE]
    ELSE LET id == Head(ids)
             n == s.note[id]
             perfect_window ==
                 adjust_windows_for_difficulty(s.difficulty)["PERFECT"] * 2
             time_diff == Abs(s.current_time_ms - n.perfect_time)
             judges == time_diff <= perfect_window
             k == tracks_index(n.track_index)
         IN IF (judges /\ n.type = "drag") /\ k = <<>>
            THEN [st |-> s, raised |-> TRUE]
            ELSE LET s1 == IF judges
                           THEN _judge_perfect(
                                    IF n.type = "drag"
                                    THEN [s EXCEPT !.tracks[k[1]].activated = TRUE]
                                    ELSE s, id)
                           ELSE s
                 IN _process_autoplay_loop_rejudging(s1, Tail(ids))

\* GameState._process_autoplay: the loop over list(self.notes); the state it
\* leaves, and raised = TRUE when self.tracks[note.track_index] raises IndexError,
\* which ends the loop and the update() that called it
RECURSIVE _process_autoplay_loop(_, _)
_process_autoplay_loop(s, ids) ==
    IF ids = <<>> THEN [st |-> s, raised |-> FALSE]
    ELSE LET id == Head(ids)
             n == s.note[id]
             perfect_window ==
                 adjust_windows_for_difficulty(s.difficulty)["PERFECT"] * 2
             time_diff == Abs(s.current_time_ms - n.perfect_time)
             judges == ~n.hit /\ time_diff <= perfect_window
             holds == /\ n.hit
                      /\ n.type = "hold"
                      /\ s.current_time_ms < n.perfect_time + n.duration
             k == tracks_index(n.track_index)
         IN IF ((judges /\ n.type = "drag") \/ holds) /\ k = <<>>
            THEN [st |-> s, raised |-> TRUE]
            ELSE LET s1 == IF judges
                           THEN _judge_perfect(
                                    IF n.type = "drag"
                                    THEN [s EXCEPT !.tracks[k[1]].activated = TRUE]
                                    ELSE s, id)
                           ELSE IF holds
                           THEN [s EXCEPT !.tracks[k[1]].activated = TRUE,
                                          !.note[id] =
                                              Note_update(n, s.current_time_ms, TRUE)]
                           ELSE s
                 IN _process_autoplay_loop(s1, Tail(ids))

_process_autoplay(s) == _process_autoplay_loop(s, s.notes)

\* GameState._process_auto_miss: the loop over list(self.notes)
RECURSIVE _process_auto_miss_loop(_, _)
_process_auto_miss_loop(s, ids) ==
    IF ids = <<>> THEN s
    ELSE LET id == Head(ids)
             n == s.note[id]
             s1 == IF ~n.hit /\ s.current_time_ms > n.perfect_time + MISS_WINDOW
                   THEN _judge_miss(s, id)
                   ELSE s
         IN _process_auto_miss_loop(s1, Tail(ids))

_process_auto_miss(s) == _process_auto_miss_loop(s, s.notes)

\* GameState.update, the DRAG rule: the loop over self.notes[:]
RECURSIVE update_drag_notes(_, _)
update_drag_notes(s, ids) ==
    IF ids = <<>> THEN s
    ELSE LET id == Head(ids)
             n == s.note[id]
             time_diff == Abs(s.current_time_ms - n.perfect_time)
             s1 == IF n.type = "drag" /\ ~n.hit /\ time_diff <= MISS_WINDOW
                   THEN IF check_track_state(s, n.track_index)
                        THEN _judge_perfect(s, id)
                        ELSE _judge_miss(s, id)
                   ELSE s
         IN update_drag_notes(s1, Tail(ids))

\* GameState.update, the note update and eviction: the loop over self.notes[:]
RECURSIVE update_active_notes(_, _)
update_active_notes(s, ids) ==
    IF ids = <<>> THEN s
    ELSE LET id == Head(ids)
             activated == check_track_state(s, s.note[id].track_index)
             n1 == Note_update(s.note[id], s.current_time_ms, activated)
             s1 == [s EXCEPT !.note[id] = n1]
             s2 == IF Note_is_complete(n1, s.current_time_ms)
                   THEN [s1 EXCEPT !.notes = remove(s1.notes, id),
                                   !.update_notes_cache = TRUE]
                   ELSE s1
         IN update_active_notes(s2, Tail(ids))

\* the end-marker loop judging no note (mutant)
miss_nothing_before_end_marker(s, ids) == s

\* GameState._check_game_over, the end-marker loop over self.notes[:]
RECURSIVE miss_before_end_marker(_, _)
miss_before_end_marker(s, ids) ==
    IF ids = <<>> THEN s
    ELSE LET id == Head(ids)
             n == s.note[id]
             s1 == IF ~n.hit /\ n.perfect_time <= s.chart_end_time_ms[1]
                   THEN _judge_miss(s, id)
                   ELSE s
         IN miss_before_end_marker(s1, Tail(ids))

\* GameState.get_accuracy: weighted judgements over judgements, in hundredths
get_accuracy(s) ==
    LET c == s.judgement_counts
        judged == c["PERFECT"] + c["GOOD"] + c["BAD"] + c["MISS"]
    IN IF judged = 0 THEN <<100, 100>>
       ELSE <<c["PERFECT"] * DEFAULT_JUDGEMENT_SCORES["PERFECT"]
                + c["GOOD"] * DEFAULT_JUDGEMENT_SCORES["GOOD"]
                + c["BAD"] * DEFAULT_JUDGEMENT_SCORES["BAD"],
              judged * 100>>

\* GameState._check_game_over: final_stats, handed to the on_game_over callback
final_stats(s) ==
    [score |-> s.score, max_combo |-> s.max_combo, judgements |-> s.judgement_counts,
     accuracy |-> get_accuracy(s), clear_time |-> s.current_time_ms]

\* the game-over event without the stop_game that follows it (mutant)
game_over_without_stop(s) ==
    [s EXCEPT !.game_over_stats = <<final_stats(s)>>,
              !.game_over_calls = @ + 1]

\* GameState._check_game_over: the game-over event, then stop_game
game_over(s) ==
    stop_game([s EXCEPT !.game_over_stats = <<final_stats(s)>>,
                        !.game_over_calls = @ + 1])

\* GameState._check_game_over
_check_game_over(s) ==
    IF ~s.is_playing THEN s
    ELSE IF s.chart_end_time_ms # <<>> /\ s.current_time_ms >= s.chart_end_time_ms[1]
    THEN game_over(miss_before_end_marker(s, s.notes))
    ELSE IF s.notes = <<>> THEN game_over(s)
    ELSE s

\* update without the test of is_paused (mutant)
update_while_paused(s, delta_time_ms) ==
    IF ~s.is_playing THEN s
    ELSE _check_game_over(
             _process_auto_miss(
                 [s EXCEPT !.current_time_ms = @ + delta_time_ms]))

\* GameState.update(delta_time_ms)
update(s, delta_time_ms) ==
    IF ~s.is_playing \/ s.is_paused THEN s
    ELSE LET s1 == IF s.current_time_ms = 0 \/ delta_time_ms > 0
                   THEN [s EXCEPT !.current_time_ms = @ + delta_time_ms]
                   ELSE s
             s2 == _update_notes_cache_impl(s1)
             a == IF s2.autoplay THEN _process_autoplay(s2)
                  ELSE [st |-> _process_auto_miss(s2), raised |-> FALSE]
             s3 == a.st
             s4 == IF ~s3.autoplay THEN update_drag_notes(s3, s3.notes) ELSE s3
             s5 == update_active_notes(s4, s4.notes)
         IN IF a.raised THEN s3 ELSE _check_game_over(s5)

\* GameState.judge_note, action 'release': the loop over self.notes
RECURSIVE release_hold_notes(_, _, _)
release_hold_notes(s, track_index, ids) ==
    IF ids = <<>> THEN s
    ELSE LET id == Head(ids)
             n == s.note[id]
             s1 == IF /\ n.type = "hold"
                      /\ n.track_index = track_index
                      /\ n.hit
                      /\ ~Note_is_complete(n, s.current_time_ms)
                      /\ n.judgement # "BAD"
                   THEN [s EXCEPT !.note[id].judgement = "BAD",
                                  !.judgement_counts["BAD"] = @ + 1,
                                  !.judgement = "BAD"]
                   ELSE s
         IN release_hold_notes(s1, track_index, Tail(ids))

\* GameState.judge_note: the notes of the track cache that a judgement can take,
\* in cache order
target_notes(s, track_index) ==
    SelectSeq(s.notes_by_track[track_index],
              LAMBDA id : /\ ~s.note[id].hit
                          /\ s.note[id].type # "drag"
                          /\ Abs(s.current_time_ms - s.note[id].perfect_time)
                                 <= MISS_WINDOW)

\* the first note of the track cache within the window, not the closest (mutant)
first_note(s, ids) == ids[1]

\* target_notes.sort(key=time_diff)[0]: the first of the minimal time_diff
closest_note(s, ids) ==
    LET diff(i) == Abs(s.current_time_ms - s.note[ids[i]].perfect_time)
        k == CHOOSE i \in 1 .. Len(ids) :
                 /\ \A j \in 1 .. Len(ids) : diff(i) <= diff(j)
                 /\ \A j \in 1 .. (i - 1) : diff(j) > diff(i)
    IN ids[k]

\* judge_note taking every action other than 'release' as a press (mutant)
judge_note_any_action(s, track_index, action) ==
    IF ~s.is_playing \/ s.is_paused THEN [st |-> s, ret |-> "None"]
    ELSE IF track_index < 0 \/ track_index >= num_tracks THEN [st |-> s, ret |-> "None"]
    ELSE LET s1 == IF action # "release"
                   THEN [s EXCEPT !.tracks[track_index] =
                                      Track_press(@, s.current_time_ms)]
                   ELSE LET r == release_hold_notes(s, track_index, s.notes)
                        IN [r EXCEPT !.tracks[track_index] = Track_release(@)]
             s2 == _update_notes_cache_impl(s1)
             targets == target_notes(s2, track_index)
         IN IF targets = <<>> THEN [st |-> s2, ret |-> "None"]
            ELSE LET target_note == closest_note(s2, targets)
                     min_time_diff ==
                         Abs(s2.current_time_ms - s2.note[target_note].perfect_time)
                     s3 == _judge_note(s2, target_note, min_time_diff)
                 IN [st |-> s3, ret |-> s3.judgement]

\* GameState.judge_note(track_index, action): the state after, and the value returned
judge_note(s, track_index, action) ==
    IF ~s.is_playing \/ s.is_paused THEN [st |-> s, ret |-> "None"]
    ELSE IF track_index < 0 \/ track_index >= num_tracks THEN [st |-> s, ret |-> "None"]
    ELSE IF action \notin {"press", "release"} THEN [st |-> s, ret |-> "None"]
    ELSE LET s1 == IF action = "press"
                   THEN [s EXCEPT !.tracks[track_index] =
                                      Track_press(@, s.current_time_ms)]
                   ELSE LET r == release_hold_notes(s, track_index, s.notes)
                        IN [r EXCEPT !.tracks[track_index] = Track_release(@)]
             s2 == _update_notes_cache_impl(s1)
             targets == target_notes(s2, track_index)
         IN IF targets = <<>> THEN [st |-> s2, ret |-> "None"]
            ELSE LET target_note == closest_note(s2, targets)
                     min_time_diff ==
                         Abs(s2.current_time_ms - s2.note[target_note].perfect_time)
                     s3 == _judge_note(s2, target_note, min_time_diff)
                 IN [st |-> s3, ret |-> s3.judgement]

\* GameState._reset_game_state
_reset_game_state(s) ==
    [s EXCEPT !.score = 0, !.combo = 0, !.max_combo = 0, !.judgement = "None",
              !.current_time_ms = 0, !.is_playing = FALSE, !.is_paused = FALSE,
              !.note = <<>>, !.notes = <<>>, !.chart_end_time_ms = <<>>,
              !.tracks = [i \in TrackIndex |-> Track_reset(s.tracks[i])],
              !.judgement_counts = ZeroCounts, !.total_notes = 0,
              !.notes_by_track = [i \in TrackIndex |-> <<>>],
              !.update_notes_cache = TRUE]

\* GameState.load_chart, NoteType(note_type_value) with its fallback to NORMAL
note_type_of(value) == IF value \in NoteType THEN value ELSE "normal"

\* GameState.load_chart(chart_data) for a chart dictionary: a descriptor without
\* 'track_index' or 'perfect_time' raises KeyError and is skipped with a warning,
\* 'type' and 'duration' have defaults, every other descriptor becomes a note
load_chart(s, chart) ==
    LET r == _reset_game_state(s)
        created == SelectSeq(chart.notes,
                             LAMBDA d : {"track_index", "perfect_time"} \subseteq DOMAIN d)
        heap == [i \in 1 .. Len(created) |->
                    LET d == created[i]
                    IN NewNote(d.track_index,
                               IF "type" \in DOMAIN d THEN note_type_of(d.type)
                               ELSE "normal",
                               d.perfect_time,
                               IF "duration" \in DOMAIN d THEN d.duration ELSE 0)]
        ids == [i \in 1 .. Len(created) |-> i]
    IN [r EXCEPT !.chart_end_time_ms = chart.end_time_ms,
                 !.note = heap,
                 !.notes = sort_by_perfect_time(heap, ids),
                 !.total_notes = Len(created),
                 !.update_notes_cache = TRUE]

\* GameState.start_game
start_game(s) ==
    IF s.notes # <<>>
    THEN [s EXCEPT !.is_playing = TRUE, !.is_paused = FALSE, !.current_time_ms = 0]
    ELSE s

\* GameState.pause_game
pause_game(s) == IF s.is_playing THEN [s EXCEPT !.is_paused = TRUE] ELSE s

\* resume_game that leaves the session paused (mutant)
resume_game_stays_paused(s) == s

\* GameState.resume_game
resume_game(s) ==
    IF s.is_playing /\ s.is_paused THEN [s EXCEPT !.is_paused = FALSE] ELSE s

\* GameState.set_difficulty: a new JudgementSystem
set_difficulty(s, d) ==
    [s EXCEPT !.difficulty = d, !.judgement_counts = ZeroCounts, !.total_notes = 0]

\* GameState.set_autoplay
set_autoplay(s, enable) == [s EXCEPT !.autoplay = enable]

\* GameState.down(number)
down(s, number) ==
    IF 0 <= number /\ number < num_tracks
    THEN [s EXCEPT !.tracks[number] = Track_press(@, s.current_time_ms)]
    ELSE s

\* GameState.up(number)
up(s, number) ==
    IF 0 <= number /\ number < num_tracks
    THEN [s EXCEPT !.tracks[number] = Track_release(@)]
    ELSE s

(***************************************************************************)
(* The environment: charts, frame deltas and inputs of the driver          *)
(***************************************************************************)
\* bound of the model: presses that activate a track, per track
MaxPress == 2

\* the largest number of notes of a chart of Normal notes only
MaxNotes == 7

\* the latest reading of the clock of the save_score calls, in seconds
MaxTime == 2

\* the number of frames the system clock runs for
MaxFrames == 6

\* the number of sessions of one loaded chart that reach their end
MaxSessions == 2

\* a note descriptor of the chart contract
Desc(type, track_index, perfect_time, duration) ==
    [type |-> type, track_index |-> track_index,
     perfect_time |-> perfect_time, duration |-> duration]

\* the Normal note of track 0 keeps the session alive after the Hold note
ChartHoldLong ==
    [notes |-> <<Desc("hold", 1, 120, 400), Desc("normal", 0, 200, 0)>>,
     end_time_ms |-> <<>>]

ChartNormal == [notes |-> <<Desc("normal", 0, 200, 0)>>, end_time_ms |-> <<>>]

ChartHoldShort == [notes |-> <<Desc("hold", 1, 120, 80)>>, end_time_ms |-> <<>>]

\* the Normal note of track 0 keeps the session alive after the Drag note
ChartDrag ==
    [notes |-> <<Desc("drag", 2, 240, 0), Desc("normal", 0, 400, 0)>>,
     end_time_ms |-> <<>>]

ChartTwo ==
    [notes |-> <<Desc("normal", 0, 200, 0), Desc("normal", 0, 120, 0)>>,
     end_time_ms |-> <<>>]

ChartEnd == [notes |-> <<Desc("normal", 0, 200, 0)>>, end_time_ms |-> <<240>>]

\* an end marker between the two notes of track 0
ChartEndLate ==
    [notes |-> <<Desc("normal", 0, 200, 0), Desc("normal", 0, 280, 0)>>,
     end_time_ms |-> <<240>>]

ChartCross ==
    [notes |-> <<Desc("normal", 0, 200, 0), Desc("normal", 1, 200, 0)>>,
     end_time_ms |-> <<>>]

Charts ==
    {ChartNormal, ChartHoldShort, ChartDrag, ChartTwo, ChartEnd, ChartCross}

\* the charts with an end marker
EndCharts == {ChartEnd, ChartEndLate}

\* the chart with a Hold note longer than the 200 ms window
HoldCharts == {ChartHoldLong}

\* charts with a malformed descriptor: a track index past the last track, a
\* negative track index, an unknown type, no perfect_time
ChartBadTrack ==
    [notes |-> <<Desc("drag", num_tracks, 200, 0), Desc("normal", 0, 200, 0)>>,
     end_time_ms |-> <<>>]

ChartNegTrack ==
    [notes |-> <<Desc("drag", -1, 200, 0), Desc("normal", 0, 200, 0)>>,
     end_time_ms |-> <<>>]

ChartBadType ==
    [notes |-> <<Desc("slide", 0, 200, 0), Desc("normal", 1, 280, 0)>>,
     end_time_ms |-> <<>>]

ChartNoTime ==
    [notes |-> <<[type |-> "normal", track_index |-> 0], Desc("normal", 0, 200, 0)>>,
     end_time_ms |-> <<>>]

MalformedCharts == {ChartBadTrack, ChartNegTrack, ChartBadType, ChartNoTime}

\* a chart of n Normal notes, four to a perfect_time, one on each track
NormalChart(n) ==
    [notes |-> [i \in 1..n |->
                  Desc("normal", (i - 1) % num_tracks,
                       200 + 40 * ((i - 1) \div num_tracks), 0)],
     end_time_ms |-> <<>>]

NormalCharts == {NormalChart(n) : n \in 1..MaxNotes}

\* the system clock when the program starts, and the time of one frame
StartClock == 1000

FrameMs == 40

\* the music_delay settings, in ms
MusicDelays == {-40, 0, 40, 1040}

\* the ids of the charts with a record in the save file
ChartIds == {"tutorial", "unknown"}

\* the scores a session of one note can end with (Miss or Bad, Good, Perfect)
FinalScores == {0, 650000, 1000000}

\* the score_data of save_score: a final score and the max_combo of the run, or
\* a dictionary without its score
ScoreData ==
    {[score |-> sc, max_combo |-> c] : sc \in FinalScores, c \in 1..2}
        \cup {[max_combo |-> 1]}

\* the charts of Scenario 1 (and 2) and of Scenario 3
Scenario1 == [notes |-> <<Desc("normal", 0, 1000, 0)>>, end_time_ms |-> <<>>]

Scenario3 == [notes |-> <<Desc("hold", 1, 2000, 1000)>>, end_time_ms |-> <<>>]

ScenarioCharts == {Scenario1, Scenario3}

\* frame deltas of the driver: a regular frame and a lag spike
DeltaTimes == {40, 400}

\* the deltas of ticks that arrive every frame (60 and 25 frames a second)
FrameDeltaTimes == {16, 40}

\* deltas of any sign
AnyDeltaTimes == {-40, 0, 40}

\* the frames of the scenarios: 15 frames reach t = 1005, 30 reach t = 2010
ScenarioDeltaTimes == {67, 1005}

\* the frames of an autoplay session: 60 frames a second, and a lag spike
AutoplayDeltaTimes == {16, 400}

\* bound of the model: the driver sends input for one track in a session, the
\* track of the first note of the loaded chart
InputTracks == IF note = <<>> THEN {} ELSE {note[1].track_index}

\* track indices outside 0 .. num_tracks - 1, and the actions of a judge_note call:
\* 'hold' is no action of judge_note
InvalidTracks == {-1, num_tracks}

Actions == {"press", "release", "hold"}

\* the judge_note calls of the driver: press and release on its track, and the
\* calls judge_note refuses
Calls ==
    (InputTracks \X {"press", "release"})
        \cup (InvalidTracks \X {"press"})
        \cup (InputTracks \X {"hold"})

(***************************************************************************)
(* Initial state and actions                                               *)
(***************************************************************************)
\* GameState.__init__(difficulty): the driver constructs one GameState per session
Init ==
    /\ note = <<>>
    /\ notes = <<>>
    /\ tracks = [i \in TrackIndex |-> NewTrack]
    /\ score = 0
    /\ combo = 0
    /\ max_combo = 0
    /\ judgement = "None"
    /\ current_time_ms = 0
    /\ is_playing = FALSE
    /\ is_paused = FALSE
    /\ autoplay = FALSE
    /\ difficulty \in Difficulty
    /\ judgement_counts = ZeroCounts
    /\ total_notes = 0
    /\ chart_end_time_ms = <<>>
    /\ notes_by_track = [i \in TrackIndex |-> <<>>]
    /\ update_notes_cache = TRUE
    /\ game_over_stats = <<>>
    /\ game_over_calls = 0
    /\ highscores = [chart_id \in ChartIds |-> <<>>]
    /\ save_result = <<>>
    /\ save_time = 0
    /\ audio = NewAudioManager
    /\ clock_ms = StartClock
    /\ position = <<>>

\* the driver loads one chart into a new GameState, and configures it from its
\* menus, outside a session
LoadChart(chart) == note = <<>> /\ ~is_playing /\ Becomes(load_chart(GS, chart))

SetAutoplay(enable) == ~is_playing /\ Becomes(set_autoplay(GS, enable))

\* start_game, for at most MaxSessions sessions that reach their end
StartGame ==
    /\ ~is_playing
    /\ game_over_calls < MaxSessions
    /\ Becomes(start_game(GS))

PauseGame == Becomes(pause_game(GS))

ResumeGame == Becomes(resume_game(GS))

Update(delta_time_ms) == Becomes(update(GS, delta_time_ms))

\* a call that would activate the track is taken while press_count < MaxPress
CanPress(track_index) ==
    tracks[track_index].activated \/ tracks[track_index].press_count < MaxPress

JudgeNote(track_index, action) ==
    /\ (action = "press" /\ track_index \in TrackIndex) => CanPress(track_index)
    /\ Becomes(judge_note(GS, track_index, action).st)

Down(number) == is_playing /\ CanPress(number) /\ Becomes(down(GS, number))

Up(number) == is_playing /\ Becomes(up(GS, number))

Next ==
    \/ \E chart \in Charts : LoadChart(chart)
    \/ \E enable \in BOOLEAN : SetAutoplay(enable)
    \/ StartGame
    \/ PauseGame
    \/ ResumeGame
    \/ \E delta_time_ms \in DeltaTimes : Update(delta_time_ms)
    \/ \E call \in Calls : JudgeNote(call[1], call[2])
    \/ \E number \in InputTracks : Down(number)
    \/ \E number \in InputTracks : Up(number)

Spec == Init /\ [][Next]_vars

\* the sessions of the scenarios: autoplay is never enabled
NextScenario ==
    \/ \E chart \in ScenarioCharts : LoadChart(chart)
    \/ StartGame
    \/ PauseGame
    \/ ResumeGame
    \/ \E delta_time_ms \in ScenarioDeltaTimes : Update(delta_time_ms)
    \/ \E track_index \in InputTracks, action \in {"press", "release"} :
           JudgeNote(track_index, action)
    \/ \E number \in InputTracks : Down(number)
    \/ \E number \in InputTracks : Up(number)

SpecScenario == Init /\ [][NextScenario]_vars

\* the sessions of the charts with an end marker
NextEnd ==
    \/ \E chart \in EndCharts : LoadChart(chart)
    \/ \E enable \in BOOLEAN : SetAutoplay(enable)
    \/ StartGame
    \/ PauseGame
    \/ ResumeGame
    \/ \E delta_time_ms \in DeltaTimes : Update(delta_time_ms)
    \/ \E call \in Calls : JudgeNote(call[1], call[2])
    \/ \E number \in InputTracks : Down(number)
    \/ \E number \in InputTracks : Up(number)

SpecEnd == Init /\ [][NextEnd]_vars

\* the sessions of the chart with a long Hold note: autoplay is never enabled
NextHold ==
    \/ \E chart \in HoldCharts : LoadChart(chart)
    \/ StartGame
    \/ PauseGame
    \/ ResumeGame
    \/ \E delta_time_ms \in DeltaTimes : Update(delta_time_ms)
    \/ \E call \in Calls : JudgeNote(call[1], call[2])
    \/ \E number \in InputTracks : Down(number)
    \/ \E number \in InputTracks : Up(number)

SpecHold == Init /\ [][NextHold]_vars

\* the sessions without input calls
NextAutoplay ==
    \/ \E chart \in Charts : LoadChart(chart)
    \/ \E enable \in BOOLEAN : SetAutoplay(enable)
    \/ StartGame
    \/ PauseGame
    \/ ResumeGame
    \/ \E delta_time_ms \in AutoplayDeltaTimes : Update(delta_time_ms)

SpecAutoplay == Init /\ [][NextAutoplay]_vars

\* the press of a player on a track that has an unhit note exactly on time
PressOnTime(track_index) ==
    /\ \E i \in DOMAIN notes : /\ note[notes[i]].track_index = track_index
                               /\ ~note[notes[i]].hit
                               /\ note[notes[i]].perfect_time = current_time_ms
    /\ JudgeNote(track_index, "press")

\* the sessions of a driver that keeps its frame loop running: pauses and
\* resumes, ticks, and a player who presses on time or not at all
NextLive ==
    \/ \E chart \in Charts : LoadChart(chart)
    \/ \E enable \in BOOLEAN : SetAutoplay(enable)
    \/ StartGame
    \/ PauseGame
    \/ ResumeGame
    \/ \E delta_time_ms \in DeltaTimes : Update(delta_time_ms)
    \/ \E track_index \in TrackIndex : PressOnTime(track_index)

\* these sessions under the schedule of the frame loop: a session that is
\* playing again and again has a tick with a positive delta (a step of update
\* that advances current_time_ms), and a paused session is resumed
SpecLive ==
    /\ Init
    /\ [][NextLive]_vars
    /\ SF_current_time_ms(/\ is_playing /\ ~is_paused
                          /\ current_time_ms' \in
                                 {current_time_ms + delta_time_ms :
                                      delta_time_ms \in DeltaTimes})
    /\ WF_vars(ResumeGame)

\* the sessions of the charts of Normal notes: autoplay, or a player who presses
\* on time or not at all
NextNormal ==
    \/ \E chart \in NormalCharts : LoadChart(chart)
    \/ \E enable \in BOOLEAN : SetAutoplay(enable)
    \/ StartGame
    \/ \E delta_time_ms \in DeltaTimes : Update(delta_time_ms)
    \/ \E track_index \in TrackIndex : PressOnTime(track_index)

SpecNormal == Init /\ [][NextNormal]_vars

\* set_difficulty on a GameState that has loaded its chart, before or during a
\* session
SetDifficulty(d) == note # <<>> /\ Becomes(set_difficulty(GS, d))

\* the sessions of a player who changes the difficulty after the chart is loaded
NextDifficulty ==
    \/ \E chart \in {ChartNormal, ChartTwo} : LoadChart(chart)
    \/ \E d \in Difficulty : SetDifficulty(d)
    \/ StartGame
    \/ \E delta_time_ms \in DeltaTimes : Update(delta_time_ms)
    \/ \E track_index \in TrackIndex : PressOnTime(track_index)

SpecDifficulty == Init /\ [][NextDifficulty]_vars

\* a call of save_score; the clock never runs backwards
SaveScore(chart_id, score_data, now, write_ok) ==
    /\ now >= save_time
    /\ save_time' = now
    /\ LET r == save_score(highscores, chart_id, score_data, now, write_ok)
       IN /\ save_result' = <<r.result>>
          /\ highscores' = r.highscores
    /\ UNCHANGED <<note, notes, tracks, score, combo, max_combo, judgement,
                   current_time_ms, is_playing, is_paused, autoplay, difficulty,
                   judgement_counts, total_notes, chart_end_time_ms,
                   notes_by_track, update_notes_cache, game_over_stats,
                   game_over_calls>>
    /\ UNCHANGED audio_vars

\* the submissions of the results of finished sessions
NextSave ==
    \E chart_id \in ChartIds, score_data \in ScoreData, now \in 0..MaxTime,
       write_ok \in BOOLEAN :
        SaveScore(chart_id, score_data, now, write_ok)

SpecSave == Init /\ [][NextSave]_vars

\* the calls of the AudioManager leave the GameState and the SaveManager alone
AudioBecomes(a) ==
    /\ audio' = a
    /\ UNCHANGED <<note, notes, tracks, score, combo, max_combo, judgement,
                   current_time_ms, is_playing, is_paused, autoplay, difficulty,
                   judgement_counts, total_notes, chart_end_time_ms,
                   notes_by_track, update_notes_cache, game_over_stats,
                   game_over_calls>>
    /\ UNCHANGED save_vars

\* the system clock advances by one frame
ClockTick ==
    /\ clock_ms < StartClock + MaxFrames * FrameMs
    /\ clock_ms' = clock_ms + FrameMs
    /\ AudioBecomes(audio)
    /\ UNCHANGED position

\* set_music_delay, from the settings, before the music plays
SetMusicDelay(delay) ==
    /\ ~audio.music_playing
    /\ audio.pause_start_time = 0
    /\ AudioBecomes(set_music_delay(audio, delay))
    /\ UNCHANGED <<clock_ms, position>>

\* play() of music that is neither playing nor paused
AudioPlay ==
    /\ ~audio.music_playing
    /\ audio.pause_start_time = 0
    /\ AudioBecomes(play(audio, clock_ms))
    /\ position' = <<>>
    /\ UNCHANGED clock_ms

AudioGetPosition ==
    /\ LET r == get_position(audio, clock_ms)
       IN /\ AudioBecomes(r.audio)
          /\ position' = <<r.position>>
    /\ UNCHANGED clock_ms

\* pause(), while the position is within the frames the clock runs for
AudioPause ==
    /\ audio.last_position <= MaxFrames * FrameMs
    /\ AudioBecomes(pause(audio, clock_ms))
    /\ UNCHANGED <<clock_ms, position>>

AudioResume ==
    /\ AudioBecomes(resume(audio, clock_ms))
    /\ UNCHANGED <<clock_ms, position>>

AudioStop ==
    /\ AudioBecomes(stop(audio))
    /\ position' = <<>>
    /\ UNCHANGED clock_ms

\* the music of a session: the frame loop asks for the position, the player
\* pauses and resumes
NextAudio ==
    \/ ClockTick
    \/ \E delay \in MusicDelays : SetMusicDelay(delay)
    \/ AudioPlay
    \/ AudioGetPosition
    \/ AudioPause
    \/ AudioResume
    \/ AudioStop

SpecAudio == Init /\ [][NextAudio]_vars

\* the sessions of the charts with a Hold note, ticks arriving every frame,
\* without input calls
NextFrames ==
    \/ \E chart \in {ChartHoldLong, ChartHoldShort} : LoadChart(chart)
    \/ \E enable \in BOOLEAN : SetAutoplay(enable)
    \/ StartGame
    \/ PauseGame
    \/ ResumeGame
    \/ \E delta_time_ms \in FrameDeltaTimes : Update(delta_time_ms)

SpecFrames == Init /\ [][NextFrames]_vars

\* the sessions whose ticks carry any delta: negative, zero or positive
NextAnyDelta ==
    \/ \E chart \in Charts : LoadChart(chart)
    \/ \E enable \in BOOLEAN : SetAutoplay(enable)
    \/ StartGame
    \/ PauseGame
    \/ ResumeGame
    \/ \E delta_time_ms \in AnyDeltaTimes : Update(delta_time_ms)

SpecAnyDelta == Init /\ [][NextAnyDelta]_vars

\* the sessions of the charts with a malformed descriptor, without input calls
NextMalformed ==
    \/ \E chart \in MalformedCharts : LoadChart(chart)
    \/ \E enable \in BOOLEAN : SetAutoplay(enable)
    \/ StartGame
    \/ PauseGame
    \/ ResumeGame
    \/ \E delta_time_ms \in DeltaTimes : Update(delta_time_ms)

SpecMalformed == Init /\ [][NextMalformed]_vars

(***************************************************************************)
(* Properties                                                              *)
(***************************************************************************)
\* the notes of the active set
ActiveNotes == {notes[i] : i \in DOMAIN notes}

\* |now - perfect_time| of a note of the heap
Offset(id) == Abs(current_time_ms - note[id].perfect_time)

\* the step is a tick that update() does not ignore
Tick == is_playing /\ ~is_paused /\ current_time_ms' > current_time_ms

\* C1 (Scenario 3): the Hold note of track 1 (perfect_time 2000, duration 1000) is
\* judged Perfect by a press, its track is activated once, at t = 2010, and never
\* released: when the note has left the active set, its held_time is its duration
\* and its judgement is still Perfect.
C1_HoldHeldToDuration ==
    (/\ Len(note) = 1
     /\ note[1].type = "hold"
     /\ note[1].perfect_time = 2000
     /\ note[1].duration = 1000
     /\ judgement_counts = [ZeroCounts EXCEPT !["PERFECT"] = 1]
     /\ tracks[1].activated
     /\ tracks[1].press_count = 1
     /\ tracks[1].last_press_time = 2010
     /\ notes = <<>>)
    => /\ note[1].held_time = note[1].duration
       /\ note[1].judgement = "PERFECT"

\* C2: judge_note(track, 'release') on a hit Hold note of the held track, before
\* perfect_time + duration and with held_time < duration, leaves the note Bad and
\* counts the Bad (once: a note that is Bad already is not counted again).
C2_ReleaseForcesBad ==
    [][\A tr \in TrackIndex :
         (is_playing /\ ~is_paused /\ Becomes(judge_note(GS, tr, "release").st))
         => \A id \in DOMAIN note :
              (/\ note[id].type = "hold"
               /\ note[id].track_index = tr
               /\ tracks[tr].activated
               /\ note[id].hit
               /\ note[id].judgement # "MISS"
               /\ note[id].held_time < note[id].duration
               /\ current_time_ms < note[id].perfect_time + note[id].duration)
              => /\ note'[id].judgement = "BAD"
                 /\ note[id].judgement # "BAD"
                      => judgement_counts'["BAD"] = judgement_counts["BAD"] + 1
                 /\ id \in ActiveNotes => id \in ActiveNotes']_vars

\* C3: in a non-autoplay session, a Drag note whose track has been activated
\* since 100 ms before its perfect_time or earlier, and still is 100 ms after it,
\* is judged Perfect.
C3_HeldDragIsPerfect ==
    \A id \in DOMAIN note :
      (/\ ~autoplay
       /\ is_playing
       /\ note[id].type = "drag"
       /\ tracks[note[id].track_index].activated
       /\ tracks[note[id].track_index].last_press_time <= note[id].perfect_time - 100
       /\ current_time_ms >= note[id].perfect_time + 100)
      => note[id].hit /\ note[id].judgement = "PERFECT"

\* C4: while PLAYING and not paused, judge_note(track, 'press') returns Perfect
\* whenever an unhit non-Drag active note of the track is within the Perfect
\* window of the difficulty.
C4_PressInPerfectWindow ==
    \A tr \in TrackIndex :
      (/\ is_playing
       /\ ~is_paused
       /\ \E id \in ActiveNotes :
            /\ note[id].track_index = tr
            /\ ~note[id].hit
            /\ note[id].type # "drag"
            /\ Offset(id) <= adjust_windows_for_difficulty(difficulty)["PERFECT"])
      => judge_note(GS, tr, "press").ret = "PERFECT"

\* a press has judged a note Perfect at the edge of the Perfect window
C4_Witness ==
    /\ ~autoplay
    /\ is_playing
    /\ judgement = "PERFECT"
    /\ \E id \in DOMAIN note :
         /\ note[id].hit
         /\ note[id].type # "drag"
         /\ note[id].judgement = "PERFECT"
         /\ Offset(id) = adjust_windows_for_difficulty(difficulty)["PERFECT"]
         /\ tracks[note[id].track_index].activated
         /\ tracks[note[id].track_index].last_press_time = current_time_ms

\* C5: in a session without input calls, a tick taken with autoplay enabled
\* judges no note Miss and does not reset the combo.
C5_AutoplayNeverMisses ==
    [][(autoplay /\ Tick)
       => /\ judgement_counts'["MISS"] = judgement_counts["MISS"]
          /\ combo' >= combo]_vars

\* C6: a note that a tick judges under autoplay within twice the Perfect window of
\* its perfect_time (the autoplay policy) is Perfect, whatever its offset.
C6_AutoplayJudgesPerfect ==
    [][(autoplay /\ Tick)
       => \A id \in DOMAIN note :
            (/\ ~note[id].hit
             /\ note'[id].hit
             /\ Abs(current_time_ms' - note[id].perfect_time)
                  <= 2 * adjust_windows_for_difficulty(difficulty)["PERFECT"])
            => note'[id].judgement = "PERFECT"]_vars

\* autoplay has judged a Hold note Perfect outside the Perfect window
C6_Witness ==
    /\ autoplay
    /\ is_playing
    /\ \E id \in ActiveNotes :
         /\ note[id].hit
         /\ note[id].judgement = "PERFECT"
         /\ note[id].start_hold_time = <<>>
         /\ Offset(id) > adjust_windows_for_difficulty(difficulty)["PERFECT"]

\* C7: in non-autoplay mode a tick that leaves now > perfect_time + 200 for an
\* unhit active note judges that note Miss in the same tick; when the tick judges
\* nothing but Miss, the combo is 0 after it and the score is unchanged.
C7_AutoMiss ==
    [][(~autoplay /\ Tick)
       => LET late == {id \in ActiveNotes :
                         /\ ~note[id].hit
                         /\ current_time_ms' > note[id].perfect_time + MISS_WINDOW}
              judged == {id \in DOMAIN note : ~note[id].hit /\ note'[id].hit}
          IN /\ \A id \in late : note'[id].hit /\ note'[id].judgement = "MISS"
             /\ (late # {} /\ \A id \in judged : note'[id].judgement = "MISS")
                  => combo' = 0 /\ score' = score]_vars

\* Scenario 2: without any input the session has ended with its note missed
C7_Witness ==
    /\ ~autoplay
    /\ ~is_playing
    /\ \A i \in TrackIndex : tracks[i].press_count = 0
    /\ Len(note) = 1
    /\ note[1].type = "normal"
    /\ note[1].hit
    /\ note[1].judgement = "MISS"
    /\ current_time_ms > note[1].perfect_time + MISS_WINDOW
    /\ judgement_counts["MISS"] = 1
    /\ combo = 0
    /\ score = 0

\* the chart of Scenario 1 is loaded and its note is still unhit at t = 1005
Scenario1At1005 ==
    /\ Len(note) = 1
    /\ note[1].type = "normal"
    /\ note[1].track_index = 0
    /\ note[1].perfect_time = 1000
    /\ total_notes = 1
    /\ is_playing
    /\ ~is_paused
    /\ current_time_ms = 1005

\* C8 (Scenario 1): at t = 1005 judge_note(0, 'press') returns Perfect and leaves
\* score = 1,000,000 and combo = 1.
C8_Scenario1 ==
    (Scenario1At1005 /\ ~note[1].hit)
    => LET r == judge_note(GS, 0, "press")
       IN r.ret = "PERFECT" /\ r.st.score = 1000000 /\ r.st.combo = 1

\* the press of Scenario 1 has been made
C8_Witness ==
    /\ Scenario1At1005
    /\ note[1].hit
    /\ note[1].judgement = "PERFECT"
    /\ tracks[0].last_press_time = 1005
    /\ score = 1000000
    /\ combo = 1

\* C9: while PLAYING, judge_note(track, 'press') activates the track; with no
\* unhit non-Drag active note of the track within 200 ms it returns None and
\* changes no note, score, combo or counter; otherwise it judges exactly one of
\* them, one of minimal offset, by that offset; notes of other tracks are as before.
C9_PressJudgesClosest ==
    \A tr \in TrackIndex :
      (is_playing /\ ~is_paused)
      => LET r == judge_note(GS, tr, "press")
             cand == {id \in ActiveNotes :
                        /\ note[id].track_index = tr
                        /\ ~note[id].hit
                        /\ note[id].type # "drag"
                        /\ Offset(id) <= MISS_WINDOW}
             changed == {id \in DOMAIN note : r.st.note[id] # note[id]}
         IN /\ r.st.tracks[tr].activated
            /\ \A id \in DOMAIN note : note[id].track_index # tr => id \notin changed
            /\ IF cand = {}
               THEN /\ r.ret = "None"
                    /\ changed = {}
                    /\ r.st.score = score
                    /\ r.st.combo = combo
                    /\ r.st.judgement_counts = judgement_counts
               ELSE \E id \in cand :
                      /\ \A other \in cand : Offset(id) <= Offset(other)
                      /\ changed = {id}
                      /\ r.st.note[id].hit
                      /\ r.st.note[id].judgement = get_judgement(difficulty, Offset(id))
                      /\ r.ret = get_judgement(difficulty, Offset(id))

\* a press has judged the later of two notes of its track, the closer one, and
\* left the earlier one unhit
C9_Witness ==
    /\ ~autoplay
    /\ is_playing
    /\ \E i, j \in ActiveNotes \cup DOMAIN note :
         /\ note[i].track_index = note[j].track_index
         /\ note[i].perfect_time > note[j].perfect_time
         /\ note[i].hit
         /\ note[i].judgement = "PERFECT"
         /\ ~note[j].hit
         /\ Offset(j) <= MISS_WINDOW
         /\ Offset(i) < Offset(j)
         /\ tracks[note[i].track_index].last_press_time = current_time_ms

\* C10: judge_note(track, 'release') turns no unhit note into a hit one and adds
\* nothing to the score.
C10_ReleaseJudgesNothing ==
    [][\A tr \in TrackIndex :
         Becomes(judge_note(GS, tr, "release").st)
         => /\ \A id \in DOMAIN note : note'[id].hit = note[id].hit
            /\ score' = score]_vars

\* C11: a judge_note(track, 'release') that forces a hit Hold note of the track to
\* Bad (a premature release) leaves combo = 0.
C11_ForcedBadResetsCombo ==
    [][\A tr \in TrackIndex :
         (/\ is_playing
          /\ ~is_paused
          /\ Becomes(judge_note(GS, tr, "release").st)
          /\ \E id \in ActiveNotes :
               /\ note[id].type = "hold"
               /\ note[id].track_index = tr
               /\ note[id].hit
               /\ note[id].judgement # "BAD"
               /\ note'[id].judgement = "BAD")
         => combo' = 0]_vars

\* C12: Track.press on an activated track changes nothing (through Track.press,
\* down and judge_note 'press' alike), so two presses without a release are one
\* press: press_count grows by exactly 1 and last_press_time is that of the first;
\* Track.release on an inactive track changes nothing.
C12_PressTwiceIsOnce ==
    \A tr \in TrackIndex :
      LET t == tracks[tr]
          once == Track_press(Track_release(t), current_time_ms)
      IN /\ t.activated
              => /\ Track_press(t, current_time_ms) = t
                 /\ down(GS, tr).tracks = tracks
                 /\ (is_playing /\ ~is_paused)
                      => judge_note(GS, tr, "press").st.tracks = tracks
         /\ ~t.activated
              => /\ Track_release(t) = t
                 /\ up(GS, tr).tracks = tracks
         /\ once.activated
         /\ once.press_count = t.press_count + 1
         /\ once.last_press_time = current_time_ms
         /\ Track_press(once, current_time_ms + 40) = once

\* a track is still activated after the time of its press, in a running session
C12_Witness ==
    /\ is_playing
    /\ ~is_paused
    /\ \E tr \in TrackIndex :
         /\ tracks[tr].activated
         /\ tracks[tr].press_count = 1
         /\ tracks[tr].last_press_time < current_time_ms

\* C13: update(dt) changes nothing while the session is not PLAYING or is PAUSED
\* (current_time_ms, notes, score, combo, counters and tracks are as before), so
\* ticks do not move the time of a PAUSED session; resume_game keeps
\* current_time_ms and the tick after it continues from that value.
C13_UpdateNoOpUnlessPlaying ==
    /\ (~is_playing \/ is_paused)
         => \A dt \in DeltaTimes \cup ScenarioDeltaTimes : update(GS, dt) = GS
    /\ (is_playing /\ is_paused)
         => /\ pause_game(GS) = GS
            /\ resume_game(GS).current_time_ms = current_time_ms
            /\ \A dt \in DeltaTimes :
                 update(resume_game(GS), dt).current_time_ms = current_time_ms + dt

\* the session is PAUSED at a time where a tick would judge a note Miss
C13_Witness ==
    /\ is_playing
    /\ is_paused
    /\ ~autoplay
    /\ current_time_ms > 0
    /\ \E id \in ActiveNotes :
         /\ ~note[id].hit
         /\ note[id].type = "normal"
         /\ current_time_ms + 40 > note[id].perfect_time + MISS_WINDOW

C15_OnlyMarkerEndsSession ==
    [][(/\ is_playing
        /\ chart_end_time_ms # <<>>
        /\ current_time_ms' < chart_end_time_ms[1])
       => is_playing']_vars

\* C16: once end-of-session detection has stopped the session (STOPPED after the
\* game-over event), no step returns it to PLAYING or changes score, max_combo or
\* the judgement counters (load_chart is not called again in a session).
C16_StoppedIsTerminal ==
    [][(~is_playing /\ game_over_stats # <<>>)
       => /\ ~is_playing'
          /\ score' = score
          /\ max_combo' = max_combo
          /\ judgement_counts' = judgement_counts]_vars

\* C17: judge_note returns None and changes nothing (tracks, notes, score, combo,
\* counters) when the session is not PLAYING, when it is PAUSED, when track_index
\* is outside 0..3, or when action is neither 'press' nor 'release'.
C17_InvalidJudgeIsNoOp ==
    \A tr \in TrackIndex \cup InvalidTracks, action \in Actions :
      (\/ ~is_playing
       \/ is_paused
       \/ tr \notin TrackIndex
       \/ action \notin {"press", "release"})
      => judge_note(GS, tr, action) = [st |-> GS, ret |-> "None"]

\* a running session in which a press on the track of an unhit note would judge it
C17_Witness ==
    /\ is_playing
    /\ ~is_paused
    /\ ~autoplay
    /\ \E id \in ActiveNotes :
         /\ ~note[id].hit
         /\ note[id].type # "drag"
         /\ ~tracks[note[id].track_index].activated
         /\ Offset(id) <= MISS_WINDOW
         /\ judge_note(GS, note[id].track_index, "press").ret # "None"

\* C18: load_chart creates a note for the well-formed descriptors of the chart
\* only (all keys present, track index in 0..3, known type): a descriptor with
\* a track index outside 0..3 or an unknown type creates no note and is not
\* counted in total_notes.
C18_LoadSkipsMalformed ==
    [][\A chart \in MalformedCharts :
         (note = <<>> /\ Becomes(load_chart(GS, chart)))
         => LET WellFormed(d) ==
                    /\ {"track_index", "perfect_time"} \subseteq DOMAIN d
                    /\ d.track_index \in TrackIndex
                    /\ "type" \in DOMAIN d => d.type \in NoteType
                good == SelectSeq(chart.notes, WellFormed)
            IN /\ Len(note') = Len(good)
               /\ Len(notes') = Len(good)
               /\ total_notes' = Len(good)
               /\ \A id \in DOMAIN note' :
                    /\ note'[id].track_index \in TrackIndex
                    /\ note'[id].type = good[id].type]_vars

\* C19: a tick is never cut short: under autoplay every unhit note of a valid
\* track within twice the Perfect window is judged, without autoplay every unhit
\* note past its 200 ms is judged, no completed note stays in the active set of
\* a session that goes on, and a session with an empty active set is stopped.
C19_TickIsNeverAborted ==
    [][Tick
       => /\ \A id \in ActiveNotes :
               (/\ ~note[id].hit
                /\ note[id].track_index \in TrackIndex
                /\ IF autoplay
                   THEN Abs(current_time_ms' - note[id].perfect_time)
                          <= 2 * adjust_windows_for_difficulty(difficulty)["PERFECT"]
                   ELSE current_time_ms' > note[id].perfect_time + MISS_WINDOW)
               => note'[id].hit
          /\ is_playing'
               => \A id \in ActiveNotes' :
                    ~Note_is_complete(note'[id], current_time_ms')
          /\ notes' = <<>> => ~is_playing']_vars

\* C20: for total_notes n >= 1, n times the Perfect score of one note lies in
\* MAX_SCORE .. MAX_SCORE + n - 1, and a session whose n notes are all judged
\* Perfect has the score MAX_SCORE exactly.
C20_FlawlessIsMaxScore ==
    total_notes >= 1
    => /\ total_notes * calculate_score(total_notes, "PERFECT")
            \in MAX_SCORE .. (MAX_SCORE + total_notes - 1)
       /\ judgement_counts["PERFECT"] = total_notes => score = MAX_SCORE

\* a player's finished session of all Perfect whose sum of Perfect scores is
\* above MAX_SCORE
C20_Witness ==
    /\ ~is_playing
    /\ ~autoplay
    /\ notes = <<>>
    /\ total_notes >= 1
    /\ judgement_counts["PERFECT"] = total_notes
    /\ total_notes * calculate_score(total_notes, "PERFECT") > MAX_SCORE
    /\ score = MAX_SCORE

\* C21: in every reachable state 0 <= score <= MAX_SCORE and
\* 0 <= combo <= max_combo, and no step of the sessions of a loaded chart
\* decreases score or max_combo.
C21_ScoreAndComboRanges ==
    /\ [](/\ 0 <= score /\ score <= MAX_SCORE
          /\ 0 <= combo /\ combo <= max_combo)
    /\ [][note # <<>> => (score' >= score /\ max_combo' >= max_combo)]_vars

\* a broken combo: a note was scored and a later one missed
C21_Witness ==
    /\ score > 0
    /\ combo = 0
    /\ max_combo >= 1
    /\ judgement_counts["MISS"] >= 1

\* C22: for the total_notes of every loaded chart (and for 0, before a load),
\* calculate_score(Perfect) >= calculate_score(Good) >= calculate_score(Bad)
\* = calculate_score(Miss) = 0.
C22_ScoreMonotonicInWeight ==
    /\ calculate_score(total_notes, "PERFECT") >= calculate_score(total_notes, "GOOD")
    /\ calculate_score(total_notes, "GOOD") >= calculate_score(total_notes, "BAD")
    /\ calculate_score(total_notes, "BAD") = calculate_score(total_notes, "MISS")
    /\ calculate_score(total_notes, "MISS") = 0

\* one note of a chart of several notes has been scored Perfect, above what a
\* Good would have given
C22_Witness ==
    /\ total_notes > 1
    /\ judgement_counts["PERFECT"] = 1
    /\ score = calculate_score(total_notes, "PERFECT")
    /\ score > calculate_score(total_notes, "GOOD")
    /\ calculate_score(total_notes, "GOOD") > 0

\* C23: the judgement windows of the difficulty of every reachable state (each
\* of the five difficulties) satisfy 10 <= Perfect < Good < Bad.
C23_WindowsOrdered ==
    LET w == adjust_windows_for_difficulty(difficulty)
    IN /\ MIN_WINDOW <= w["PERFECT"]
       /\ w["PERFECT"] < w["GOOD"]
       /\ w["GOOD"] < w["BAD"]

\* a press under the smallest windows (master) that fell between the Perfect and
\* the Good window
C23_Witness ==
    /\ difficulty = "master"
    /\ \E id \in DOMAIN note :
         /\ note[id].hit
         /\ note[id].judgement = "GOOD"

\* C24: a save_score call replaces the stored best record of its chart only by
\* a submission with a strictly greater score (and touches no other chart's
\* record); a submission with an equal or lower score leaves the store
\* unchanged and the call returns True.  (The clock reading of the call is the
\* save_time of the state after it.)
C24_BestOnlyImproves ==
    [][\A chart_id \in ChartIds, score_data \in ScoreData :
         (\E write_ok \in BOOLEAN :
            SaveScore(chart_id, score_data, save_time', write_ok))
         => /\ \A c \in ChartIds :
                 highscores'[c] # highscores[c]
                 => /\ c = chart_id
                    /\ "score" \in DOMAIN score_data
                    /\ score_data.score > current_best_score(highscores, c)
                    /\ highscores'[c] = <<with_timestamp(score_data, save_time')>>
            /\ ("score" \in DOMAIN score_data
                /\ score_data.score <= current_best_score(highscores, chart_id))
                 => /\ highscores' = highscores
                    /\ save_result' = <<TRUE>>]_vars

\* a call later than the one that stored the only record returned True and
\* stored nothing: its submission was no improvement
C24_Witness ==
    /\ save_result = <<TRUE>>
    /\ highscores["tutorial"] # <<>>
    /\ highscores["tutorial"][1].score > 0
    /\ highscores["tutorial"][1].timestamp < save_time
    /\ highscores["unknown"] = <<>>

\* C25: between play() and stop() the values get_position returns never
\* decrease, whatever the music_delay and however pause() and resume() are
\* interleaved: a value returned after an earlier one is at least the earlier
\* one (while paused and right after resume() it is the paused value).
C25_PositionNeverDecreases ==
    [][(position # <<>> /\ position' # <<>>) => position'[1] >= position[1]]_vars

\* C26: in every reachable state every note with hit = true has a judgement.
C26_HitHasJudgement ==
    \A id \in DOMAIN note : note[id].hit => note[id].judgement \in JudgementResult

\* both notes of a chart are hit, one by a press and one by the auto-miss
C26_Witness ==
    /\ \E id \in DOMAIN note : note[id].hit /\ note[id].judgement = "MISS"
    /\ \E id \in DOMAIN note : note[id].hit /\ note[id].judgement = "PERFECT"
    /\ ~autoplay

\* C27: held_time of a note changes only when the note is a Hold note that has
\* been hit and whose track is activated, and then to
\* min(now - perfect_time, duration); held_time never exceeds the duration.
C27_HeldTimeOnlyWhileHeld ==
    /\ [](\A id \in DOMAIN note : note[id].held_time <= note[id].duration)
    /\ [][\A id \in DOMAIN note \cap DOMAIN note' :
            note'[id].held_time # note[id].held_time
            => /\ note[id].type = "hold"
               /\ note'[id].hit
               /\ tracks'[note[id].track_index].activated
               /\ note'[id].held_time =
                      Min(current_time_ms' - note[id].perfect_time,
                          note[id].duration)]_vars

\* a Hold note held past its end: held_time is capped at the duration
C27_Witness ==
    \E id \in DOMAIN note :
        /\ note[id].type = "hold"
        /\ note[id].hit
        /\ note[id].duration > 0
        /\ note[id].held_time = note[id].duration
        /\ current_time_ms - note[id].perfect_time > note[id].duration

\* C28: while the session is playing, update(dt) never decreases
\* current_time_ms, for negative, zero and positive dt.
C28_TimeNeverDecreases ==
    [][\A delta_time_ms \in AnyDeltaTimes :
         (is_playing /\ Update(delta_time_ms))
         => current_time_ms' >= current_time_ms]_vars

\* C29: the activated flag of a track changes only as Track.press() and
\* Track.release() change it: a track that becomes activated has its
\* press_count incremented and its last_press_time set to the time of the
\* step, and a track that becomes inactive changes nothing else.
C29_ActivatedOnlyByPressRelease ==
    [][\A i \in TrackIndex :
         /\ (~tracks[i].activated /\ tracks'[i].activated)
              => tracks'[i] = Track_press(tracks[i], current_time_ms')
         /\ (tracks[i].activated /\ ~tracks'[i].activated)
              => tracks'[i] = Track_release(tracks[i])]_vars

\* C30: under autoplay with ticks arriving every frame, a Hold note that
\* autoplay has judged leaves the active set only when its held_time has
\* reached its duration, and until then its track is activated.
C30_AutoplayHoldsToDuration ==
    [][(autoplay /\ Tick)
       => \A id \in ActiveNotes :
            (note[id].type = "hold" /\ note'[id].hit)
            => /\ id \notin ActiveNotes'
                    => note'[id].held_time >= note[id].duration
               /\ (id \in ActiveNotes' /\ note[id].hit)
                    => tracks'[note[id].track_index].activated]_vars

\* C31: on_game_over is called exactly once for a session that update() ends,
\* in the tick that stops the session and with the final statistics of that
\* tick; no other step calls it, and a tick of a stopped session does not.
C31_GameOverOnce ==
    [][/\ game_over_calls' =
              IF is_playing /\ ~is_playing' THEN game_over_calls + 1
              ELSE game_over_calls
       /\ (is_playing /\ ~is_playing')
            => /\ Tick
               /\ game_over_stats' = <<final_stats(GS')>>
       /\ \A delta_time_ms \in DeltaTimes :
            (~is_playing /\ Update(delta_time_ms))
            => UNCHANGED <<game_over_calls, game_over_stats>>]_vars

\* a session has ended at its end marker and on_game_over was called once
C31_Witness ==
    /\ ~is_playing
    /\ game_over_calls = 1
    /\ chart_end_time_ms # <<>>
    /\ current_time_ms >= chart_end_time_ms[1]
    /\ game_over_stats # <<>>
    /\ game_over_stats[1].clear_time = current_time_ms

\* C32: the four judgement counters count each note at most once:
\* PERFECT + GOOD + BAD + MISS <= total_notes in every reachable state.
C32_CountersCountOnce ==
    judgement_counts["PERFECT"] + judgement_counts["GOOD"]
        + judgement_counts["BAD"] + judgement_counts["MISS"] <= total_notes

\* C33: judge_note(track, 'press') never returns Miss, and a note whose offset
\* from now exceeds the Bad window of the difficulty is left unhit by the press.
C33_PressNeverMisses ==
    [][\A track_index \in TrackIndex :
         (/\ is_playing /\ ~is_paused
          /\ Becomes(judge_note(GS, track_index, "press").st))
         => /\ judge_note(GS, track_index, "press").ret # "MISS"
            /\ \A id \in DOMAIN note :
                 (/\ ~note[id].hit
                  /\ Offset(id) > adjust_windows_for_difficulty(difficulty)["BAD"])
                 => ~note'[id].hit]_vars

\* C34: no note leaves the active set unjudged: every note that a tick removes
\* from the active notes has hit = TRUE, with autoplay and without.
C34_RemovedNotesAreJudged ==
    [][Tick => \A id \in ActiveNotes : id \notin ActiveNotes' => note'[id].hit]_vars

\* C35: for a well-formed chart, a session that start_game has started reaches
\* STOPPED when update keeps being called with a positive delta and the session
\* is not left paused, with or without an end marker, with autoplay and without.
C35_SessionEnds == is_playing ~> ~is_playing

\* a session of a chart without an end marker has ended under autoplay, and a
\* session of a chart with an end marker has ended without it
C35_Witness ==
    /\ ~is_playing
    /\ game_over_calls = 1
    /\ current_time_ms > 0
    /\ note # <<>>
    /\ autoplay <=> chart_end_time_ms = <<>>

\* C36: each note is judged at most once, by a press, autoplay, the Drag rule,
\* the auto-miss or the end marker: a note with hit = TRUE keeps it, and a step
\* adds to the combo at most the number of notes it judges and to the score at
\* most their scores, so that a judged note never adds to score or combo again.
C36_JudgedOnce ==
    [][(DOMAIN note' = DOMAIN note) =>
         LET judged == {id \in DOMAIN note : ~note[id].hit /\ note'[id].hit}
         IN /\ \A id \in DOMAIN note : note[id].hit => note'[id].hit
            /\ combo' - combo <= Cardinality(judged)
            /\ score' - score
                   <= Cardinality(judged) * calculate_score(total_notes, "PERFECT")
            /\ (judged = {}) => (score' = score /\ combo' <= combo)]_vars

\* a Hold note judged on an earlier tick is still active, under autoplay, with
\* its judging window still open
C36_Witness ==
    /\ is_playing
    /\ autoplay
    /\ \E id \in ActiveNotes :
         /\ note[id].hit
         /\ note[id].type = "hold"
         /\ note[id].held_time > 0
         /\ Offset(id) <= adjust_windows_for_difficulty(difficulty)["PERFECT"] * 2
    /\ score > 0

\* C37: the held_time of every note is never negative, also for a Hold note that
\* is hit before its perfect_time and updated while its track is activated.
C37_HeldTimeNotNegative == \A id \in DOMAIN note : note[id].held_time >= 0

\* C38: set_difficulty called after load_chart keeps the total_notes of the chart
\* and the judgement counters, so that later judgements are still scored as
\* ceil(MAX_SCORE / total_notes * weight).
C38_DifficultyKeepsTotalNotes ==
    [][\A d \in Difficulty :
         (note # <<>> /\ Becomes(set_difficulty(GS, d)))
         => /\ total_notes' = total_notes
            /\ judgement_counts' = judgement_counts
            /\ total_notes' = Len(note')]_vars

\* C39: the track cache that judge_note and update read after refreshing it holds,
\* for each track, exactly the active notes of the track with hit = FALSE, ordered
\* by perfect_time; so the note that a press selects from the cache is the note
\* that a search over the whole active list selects.
C39_CacheIsExact ==
    LET s == _update_notes_cache_impl(GS)
        cache == s.notes_by_track
    IN \A track_index \in TrackIndex :
         LET unhit == SelectSeq(notes,
                                LAMBDA id : /\ note[id].track_index = track_index
                                            /\ ~note[id].hit)
             within == SelectSeq(unhit,
                                 LAMBDA id : /\ note[id].type # "drag"
                                             /\ Offset(id) <= MISS_WINDOW)
             targets == target_notes(s, track_index)
         IN /\ {cache[track_index][k] : k \in DOMAIN cache[track_index]}
                   = {unhit[k] : k \in DOMAIN unhit}
            /\ Len(cache[track_index]) = Len(unhit)
            /\ \A k \in DOMAIN cache[track_index] :
                 \A l \in DOMAIN cache[track_index] :
                   k < l => note[cache[track_index][k]].perfect_time
                                <= note[cache[track_index][l]].perfect_time
            /\ (targets = <<>>) <=> (within = <<>>)
            /\ targets # <<>> => closest_note(s, targets) = closest_note(GS, within)

\* a press has judged a note of a track that still has an unhit note, and a tick
\* has refreshed the cache since: the cache is read without being rebuilt
C39_Witness ==
    /\ is_playing
    /\ ~update_notes_cache
    /\ \E id \in DOMAIN note :
         /\ note[id].hit
         /\ notes_by_track[note[id].track_index] # <<>>

====
